---- MODULE Spec2Model ----
(***************************************************************************)
(* Model of the pulse-detection hook usePulseDetection                     *)
(* (src/src/hooks/usePulseDetection.ts).                                   *)
(*                                                                         *)
(* The hook's React state and refs are the variables.  Every callback of   *)
(* the hook (the synchronous parts of startDetection between its awaits,   *)
(* the progress interval, the session timeout, the 500 ms settle timer,    *)
(* the frame callback analyzeFrame, stopDetection) is one action: the      *)
(* JavaScript event loop runs each of them to completion.                  *)
(*                                                                         *)
(* Conventions                                                             *)
(*  - A startDetection invocation is numbered k in 1..MaxStarts.  Stream   *)
(*    k is the MediaStream invocation k obtained; timers and frame         *)
(*    callbacks created by invocation k carry the handle k.  Handles of    *)
(*    the browser are positive numbers, so 0 stands for a null ref.        *)
(*  - calls[k].cap is the value of isDetecting in the render whose         *)
(*    startDetection (and therefore whose analyzeFrame closure) was        *)
(*    invoked: analyzeFrame is memoised per value of isDetecting.          *)
(*  - Samples are integers (the source holds floats); the mean removal of  *)
(*    calculateBPM is computed exactly on integers, and a BPM is the       *)
(*    exact fraction <<numerator, denominator>>.                           *)
(*  - env.durationMs is durationSeconds * 1000, the hook's argument in ms. *)
(*  - progress holds the numerator of the progress percentage over the     *)
(*    denominator env.durationMs / 100:                                    *)
(*    min(elapsed / (durationSeconds*1000) * 100, 100)                     *)
(*      = Min(elapsed, env.durationMs) / (env.durationMs / 100).           *)
(*  - Timer callbacks run when the clock reaches their deadline; callbacks *)
(*    due at the same instant run in any order, except that the progress  *)
(*    intervals due at the same instant, which all publish the same value, *)
(*    run in the order of their invocations.  Calls of the user and        *)
(*    settlements of promises happen between any two callbacks.            *)
(*  - The unmount cleanup (lines 258-262) is a call of stopDetection.      *)
(***************************************************************************)
EXTENDS Integers, Sequences, FiniteSets, TLC

VARIABLES
    currentBPM,         \* useState(0)
    finalBPM,           \* useState(null): <<>> is null, <<n>> is the number n
    isDetecting,        \* useState(false)
    progress,           \* useState(0), see the conventions
    error,              \* useState(null)
    streamRef,          \* streamRef.current: 0 or a stream
    animationFrameRef,  \* animationFrameRef.current: 0 or a frame handle
    intervalRef,        \* intervalRef.current: 0 or an interval handle
    timeoutRef,         \* timeoutRef.current: 0 or a timeout handle
    redValues,          \* redValuesRef.current
    timestamps,         \* timestampsRef.current
    startTimeRef,       \* startTimeRef.current
    srcObject,          \* videoRef.current.srcObject: 0 or a stream
    calls,              \* the invocations of startDetection
    live,               \* the streams whose tracks have not been stopped
    timers,             \* pending setInterval / setTimeout callbacks
    frames,             \* pending requestAnimationFrame callbacks
    now,                \* Date.now(), in ms
    env,                \* the environment: hook argument, display, signal
    overlap,            \* history: startDetection was invoked during a live
                        \* session
    stopped             \* history of the sessions no other session
                        \* overlapped: "no" since the last startDetection,
                        \* else the phase in which stopDetection was first
                        \* called

vars == <<currentBPM, finalBPM, isDetecting, progress, error, streamRef,
          animationFrameRef, intervalRef, timeoutRef, redValues, timestamps,
          startTimeRef, srcObject, calls, live, timers, frames, now, env,
          overlap, stopped>>

reactState == <<currentBPM, finalBPM, isDetecting, progress, error>>
handleRefs == <<streamRef, animationFrameRef, intervalRef, timeoutRef, srcObject>>
buffer     == <<redValues, timestamps>>

----------------------------------------------------------------------------
(* Bounds of the model *)

MaxStarts == 2        \* invocations of startDetection in one behaviour
MaxTicks  == 6        \* the clock of Spec stops after MaxTicks * PROGRESS_MS ms
MaxExtra  == 1        \* SpecEstimate: buffers up to MIN_SAMPLES + MaxExtra long

(* Program constants *)

MAX_SAMPLES      == 450
MIN_SAMPLES      == 60
minPeakDistance  == 300
MIN_BPM          == 40
MAX_BPM          == 200
MIN_BRIGHTNESS   == 80
MAX_BRIGHTNESS   == 240
WARMUP_MS        == 3000
SETTLE_MS        == 500
PROGRESS_MS      == 100
MS_PER_MINUTE    == 60000
MS_PER_SECOND    == 1000
DEFAULT_DURATION == 15

NoHandle == 0

NoError     == "null"
CameraError == "camera"    \* 'Не удалось получить доступ к камере. ...'
FinalError  == "final"     \* 'Не удалось определить пульс. ...'

Calls == 1..MaxStarts

Min(a, b) == IF a < b THEN a ELSE b


MinOf(S) == CHOOSE x \in S : \A y \in S : x <= y

----------------------------------------------------------------------------
(* calculateBPM, lines 34-68.  Sequences are 1-based: the source's index i *)
(* is the model's i + 1, so the source's 2 <= i <= n-3 is 3 <= i <= n-2.   *)

(* reduce((a, b) => a + b, 0), summed by halves to keep the evaluation     *)
(* shallow                                                                 *)
RECURSIVE SumRange(_, _, _)
SumRange(s, lo, hi) ==
    IF lo > hi THEN 0
    ELSE IF lo = hi THEN s[lo]
    ELSE LET mid == (lo + hi) \div 2
         IN  SumRange(s, lo, mid) + SumRange(s, mid + 1, hi)

Sum(s) == SumRange(s, 1, Len(s))

(* normalized[i] > normalized[j] is values[i] > values[j], and             *)
(* normalized[i] > 0 is values[i] > mean, i.e. values[i] * n > sum.        *)
IsLocalMax(values, total, i) ==
    /\ values[i] > values[i - 1]
    /\ values[i] > values[i - 2]
    /\ values[i] > values[i + 1]
    /\ values[i] > values[i + 2]
    /\ values[i] * Len(values) > total

(* A faulty test that lets a peak through exactly 300 ms after the last *)
AcceptPeakInclusive(peaks, t) ==
    Len(peaks) = 0 \/ t - peaks[Len(peaks)] >= minPeakDistance

AcceptPeak(peaks, t) ==
    Len(peaks) = 0 \/ t - peaks[Len(peaks)] > minPeakDistance

(* The loop of lines 43-55.  Whether position i is pushed depends only on  *)
(* the peak pushed last, so the loop is: from the position after the last  *)
(* pushed one, push the first local maximum that AcceptPeak lets through.  *)
RECURSIVE ScanPeaks(_, _, _, _)
ScanPeaks(ts, candidates, from, peaks) ==
    LET next == {i \in candidates : i >= from /\ AcceptPeak(peaks, ts[i])}
    IN  IF next = {} THEN peaks
        ELSE ScanPeaks(ts, candidates, MinOf(next) + 1,
                       Append(peaks, ts[MinOf(next)]))

FindPeaks(values, ts) ==
    LET total == Sum(values)
        candidates == {i \in 3..(Len(values) - 2) : IsLocalMax(values, total, i)}
    IN  ScanPeaks(ts, candidates, 3, <<>>)

Intervals(peaks) == [i \in 1..(Len(peaks) - 1) |-> peaks[i + 1] - peaks[i]]

Unknown == <<0, 1>>

(* A faulty estimator, from any number of samples *)
calculateBPMAnyLength(values, ts) ==
    LET peaks == FindPeaks(values, ts) IN
    IF Len(peaks) < 2 THEN Unknown
    ELSE LET intervals == Intervals(peaks) IN
         <<MS_PER_MINUTE * Len(intervals), Sum(intervals)>>

(* The BPM 60000 / avgInterval as the exact fraction                       *)
(* <<60000 * intervals.length, sum of the intervals>>; 0 is <<0, 1>>.      *)
calculateBPM(values, ts) ==
    IF Len(values) < MIN_SAMPLES THEN Unknown
    ELSE LET peaks == FindPeaks(values, ts) IN
         IF Len(peaks) < 2 THEN Unknown
         ELSE LET intervals == Intervals(peaks) IN
              <<MS_PER_MINUTE * Len(intervals), Sum(intervals)>>

(* bpm > 40 && bpm < 200, lines 141 and 203 *)
Plausible(bpm) ==
    /\ bpm[2] > 0
    /\ bpm[1] > MIN_BPM * bpm[2]
    /\ bpm[1] < MAX_BPM * bpm[2]

(* Math.round: the nearest integer, halves rounded up *)
Round(bpm) == (2 * bpm[1] + bpm[2]) \div (2 * bpm[2])

----------------------------------------------------------------------------
(* The environment: what the camera shows at time t.  A frame is either    *)
(* not ready (readyState below HAVE_ENOUGH_DATA, or a zero dimension) or   *)
(* carries the channel means of the sampled region.                        *)

NotReady == [ready |-> FALSE, r |-> 0, g |-> 0, b |-> 0]
Pixels(r, g, b) == [ready |-> TRUE, r |-> r, g |-> g, b |-> b]

Abs(x) == IF x < 0 THEN -x ELSE x

(* One peak every 800 ms: a triangle wave of the red mean, 100..200 *)
PulseRed(t) == 100 + ((400 - Abs((t % 800) - 400)) \div 4)

(* The same pulse until 3.6 s, then a still finger but for one beat at 8 s *)
SlowingRed(t) ==
    IF t < 3600 THEN PulseRed(t)
    ELSE IF Abs(t - 8000) < 400 THEN 100 + ((400 - Abs(t - 8000)) \div 4)
    ELSE 100

(* Grey frames whose brightness walks over both bounds of the gate *)
EdgeGrey(t) ==
    CASE (t \div 10) % 4 = 0 -> MIN_BRIGHTNESS
      [] (t \div 10) % 4 = 1 -> MIN_BRIGHTNESS + 1
      [] (t \div 10) % 4 = 2 -> MAX_BRIGHTNESS - 1
      [] OTHER               -> MAX_BRIGHTNESS

Frame(signal, t) ==
    CASE signal = "pulse"    -> Pixels(PulseRed(t), 100, 100)
      [] signal = "flat"     -> Pixels(150, 100, 100)
      [] signal = "slowing"  -> Pixels(SlowingRed(t), 100, 100)
      [] signal = "edges"    -> Pixels(EdgeGrey(t), EdgeGrey(t), EdgeGrey(t))
      [] OTHER               ->
            CASE (t \div PROGRESS_MS) % 3 = 0 -> Pixels(100 + ((t \div PROGRESS_MS) % 7), 100, 100)
              [] (t \div PROGRESS_MS) % 3 = 1 -> Pixels(240, 240, 240)
              [] OTHER                    -> NotReady

(* The k-th display frame is at floor(k * 1000 / fps) ms *)
FrameAt(fps, k) == (k * MS_PER_SECOND) \div fps

NextFrameTime(fps, t) ==
    LET k0 == (t * fps) \div MS_PER_SECOND
    IN  FrameAt(fps, MinOf({k \in k0..(k0 + 2) : FrameAt(fps, k) > t}))

----------------------------------------------------------------------------
(* The invocations of startDetection *)

Awaiting == {"camera", "torch", "play"}
Rejections == {"cameraRejected", "torchRejected", "playRejected"}

Idle == [pc |-> "idle", cap |-> FALSE]

(* A session is live: Detecting, or an invocation is still between awaits *)
SessionLive == isDetecting \/ \E j \in Calls : calls[j].pc \in Awaiting

(* Detecting with the stream, both timers and the frame loop in place *)
FullyStarted ==
    /\ isDetecting
    /\ streamRef # NoHandle
    /\ animationFrameRef # NoHandle
    /\ intervalRef # NoHandle
    /\ timeoutRef # NoHandle

(* Detecting, and the settle timer of the session is still pending *)
Settling ==
    /\ isDetecting
    /\ intervalRef # NoHandle
    /\ \E t \in timers : t.kind = "settle" /\ t.id = intervalRef

(* The phase of the session at a call of stopDetection *)
StopPhase ==
    IF \E j \in Calls : calls[j].pc \in Awaiting THEN "acquiring"
    ELSE IF Settling THEN "settling"
    ELSE IF FullyStarted THEN "sampling"
    ELSE "other"

(* The environment is either free (the user calls startDetection and       *)
(* stopDetection at any time, every promise resolves or rejects,           *)
(* the device may have a torch) or patient (the user only starts sessions, *)
(* every promise resolves, the device has no torch, and all of it happens  *)
(* before the clock starts).                                               *)
Free == ~env.patient
MayAct == Free \/ now = 0

Timer(kind, k, at) == [kind |-> kind, id |-> k, at |-> at]
FrameCallback(k, at) == [id |-> k, at |-> at]

DueTimers(kind) == {t \in timers : t.kind = kind /\ t.at <= now}
DueFrames == {f \in frames : f.at <= now}

----------------------------------------------------------------------------
(* stopDetection, lines 221-256, as a function of the resources it touches *)

Resources ==
    [isDetecting |-> isDetecting, animationFrameRef |-> animationFrameRef,
     intervalRef |-> intervalRef, timeoutRef |-> timeoutRef,
     streamRef |-> streamRef, srcObject |-> srcObject,
     live |-> live, timers |-> timers, frames |-> frames]

(* lines 224-227: cancelAnimationFrame *)
CancelFrame(s) ==
    IF s.animationFrameRef # NoHandle
    THEN [s EXCEPT !.frames = {f \in s.frames : f.id # s.animationFrameRef},
                   !.animationFrameRef = NoHandle]
    ELSE s

(* lines 229-232: clearInterval *)
CancelInterval(s) ==
    IF s.intervalRef # NoHandle
    THEN [s EXCEPT !.timers = {t \in s.timers :
                                 ~(t.kind = "interval" /\ t.id = s.intervalRef)},
                   !.intervalRef = NoHandle]
    ELSE s

(* lines 234-237: clearTimeout *)
CancelTimeout(s) ==
    IF s.timeoutRef # NoHandle
    THEN [s EXCEPT !.timers = {t \in s.timers :
                                 ~(t.kind = "timeout" /\ t.id = s.timeoutRef)},
                   !.timeoutRef = NoHandle]
    ELSE s

(* lines 239-251: every track of the stream is stopped *)
ReleaseStream(s) ==
    IF s.streamRef # NoHandle
    THEN [s EXCEPT !.live = s.live \ {s.streamRef}, !.streamRef = NoHandle]
    ELSE s

(* lines 253-255 *)
DetachVideo(s) == [s EXCEPT !.srcObject = NoHandle]

(* A teardown that would release what the refs no longer hold as well *)
TeardownEverything(s) ==
    [s EXCEPT !.isDetecting = FALSE, !.animationFrameRef = NoHandle,
              !.intervalRef = NoHandle, !.timeoutRef = NoHandle,
              !.streamRef = NoHandle, !.srcObject = NoHandle,
              !.live = {}, !.timers = {}, !.frames = {}]

(* Faulty teardowns the properties must tell from the real one: one that  *)
(* forgets the session timeout, one that releases one handle per call      *)
TeardownKeepsTimeout(s) ==
    DetachVideo(ReleaseStream(CancelInterval(CancelFrame(
        [s EXCEPT !.isDetecting = FALSE]))))

TeardownFirstHandle(s) ==
    IF s.animationFrameRef # NoHandle THEN CancelFrame(s)
    ELSE IF s.intervalRef # NoHandle THEN CancelInterval(s)
    ELSE IF s.timeoutRef # NoHandle THEN CancelTimeout(s)
    ELSE DetachVideo(ReleaseStream([s EXCEPT !.isDetecting = FALSE]))

Teardown(s) ==
    DetachVideo(ReleaseStream(CancelTimeout(CancelInterval(CancelFrame(
        [s EXCEPT !.isDetecting = FALSE])))))

SetResources(s) ==
    /\ isDetecting' = s.isDetecting
    /\ animationFrameRef' = s.animationFrameRef
    /\ intervalRef' = s.intervalRef
    /\ timeoutRef' = s.timeoutRef
    /\ streamRef' = s.streamRef
    /\ srcObject' = s.srcObject
    /\ live' = s.live
    /\ timers' = s.timers
    /\ frames' = s.frames

stopDetection ==
    /\ Free
    /\ SetResources(Teardown(Resources))
    /\ stopped' = IF stopped = "no" /\ ~overlap THEN StopPhase ELSE stopped
    /\ UNCHANGED <<currentBPM, finalBPM, progress, error, buffer, startTimeRef,
                   calls, now, env, overlap>>

----------------------------------------------------------------------------
(* startDetection, lines 153-219, one action per synchronous stretch *)

(* A faulty start that keeps the error and the result of the last session *)
startDetectionKeepsResult(k) ==
    /\ MayAct
    /\ calls[k].pc = "idle"
    /\ \A j \in 1..(k - 1) : calls[j].pc # "idle"
    /\ currentBPM' = 0
    /\ progress' = 0
    /\ redValues' = <<>>
    /\ timestamps' = <<>>
    /\ calls' = [calls EXCEPT ![k] = [pc |-> "camera", cap |-> isDetecting]]
    /\ overlap' = (overlap \/ SessionLive)
    /\ stopped' = "no"
    /\ UNCHANGED <<error, finalBPM, isDetecting, handleRefs, startTimeRef, live,
                   timers, frames, now, env>>

(* lines 155-171: the resets, then the camera is requested *)
startDetection(k) ==
    /\ MayAct
    /\ calls[k].pc = "idle"
    /\ \A j \in 1..(k - 1) : calls[j].pc # "idle"
    /\ error' = NoError
    /\ finalBPM' = <<>>
    /\ currentBPM' = 0
    /\ progress' = 0
    /\ redValues' = <<>>
    /\ timestamps' = <<>>
    /\ calls' = [calls EXCEPT ![k] = [pc |-> "camera", cap |-> isDetecting]]
    /\ overlap' = (overlap \/ SessionLive)
    /\ stopped' = "no"
    /\ UNCHANGED <<isDetecting, handleRefs, startTimeRef, live, timers, frames,
                   now, env>>

(* A faulty catch block that reports nothing *)
CatchErrorSilent(k, rejection) ==
    /\ Free
    /\ isDetecting' = FALSE
    /\ calls' = [calls EXCEPT ![k].pc = rejection]
    /\ UNCHANGED <<currentBPM, finalBPM, progress, error, handleRefs, buffer,
                   startTimeRef, live, timers, frames, now, env, overlap,
                   stopped>>

(* lines 214-218: the catch block; the invocation ends at the rejection    *)
CatchError(k, rejection) ==
    /\ Free
    /\ error' = CameraError
    /\ isDetecting' = FALSE
    /\ calls' = [calls EXCEPT ![k].pc = rejection]
    /\ UNCHANGED <<currentBPM, finalBPM, progress, handleRefs, buffer,
                   startTimeRef, live, timers, frames, now, env, overlap,
                   stopped>>

(* lines 184-186: the stream is attached and play() is awaited *)
AttachAndPlay(k) ==
    /\ srcObject' = k
    /\ calls' = [calls EXCEPT ![k].pc = "play"]

(* lines 171-182: getUserMedia resolved; the torch is requested when the   *)
(* track advertises it                                                     *)
CameraResolved(k, torch) ==
    /\ MayAct
    /\ torch => Free
    /\ calls[k].pc = "camera"
    /\ streamRef' = k
    /\ live' = live \cup {k}
    /\ IF torch
       THEN calls' = [calls EXCEPT ![k].pc = "torch"] /\ UNCHANGED srcObject
       ELSE AttachAndPlay(k)
    /\ UNCHANGED <<reactState, animationFrameRef, intervalRef, timeoutRef,
                   buffer, startTimeRef, timers, frames, now, env, overlap,
                   stopped>>

CameraRejected(k) ==
    /\ calls[k].pc = "camera"
    /\ CatchError(k, "cameraRejected")

(* lines 178-186: applyConstraints({torch: true}) resolved *)
TorchResolved(k) ==
    /\ MayAct
    /\ calls[k].pc = "torch"
    /\ AttachAndPlay(k)
    /\ UNCHANGED <<reactState, streamRef, animationFrameRef, intervalRef,
                   timeoutRef, buffer, startTimeRef, live, timers, frames, now,
                   env, overlap, stopped>>

TorchRejected(k) ==
    /\ calls[k].pc = "torch"
    /\ CatchError(k, "torchRejected")

(* lines 189-212: play() resolved; the session is Detecting *)
PlayResolved(k) ==
    /\ MayAct
    /\ calls[k].pc = "play"
    /\ isDetecting' = TRUE
    /\ startTimeRef' = now
    /\ intervalRef' = k
    /\ timeoutRef' = k
    /\ timers' = timers \cup
          { Timer("interval", k, now + PROGRESS_MS),
            Timer("timeout", k, now + env.durationMs),
            Timer("settle", k, now + SETTLE_MS) }
    /\ calls' = [calls EXCEPT ![k].pc = "started"]
    /\ UNCHANGED <<currentBPM, finalBPM, progress, error, streamRef,
                   animationFrameRef, srcObject, buffer, live, frames, now, env,
                   overlap, stopped>>

PlayRejected(k) ==
    /\ calls[k].pc = "play"
    /\ CatchError(k, "playRejected")

----------------------------------------------------------------------------
(* The timer callbacks of a session *)

(* lines 192-196: the progress interval *)
ProgressValue(elapsed) == Min(elapsed, env.durationMs)

ProgressTick(k) ==
    \E t \in DueTimers("interval") :
        /\ t.id = k
        /\ \A u \in DueTimers("interval") : u.id >= k
        /\ progress' = ProgressValue(now - startTimeRef)
        /\ timers' = (timers \ {t}) \cup {Timer("interval", k, t.at + PROGRESS_MS)}
        /\ UNCHANGED <<currentBPM, finalBPM, isDetecting, error, handleRefs,
                       buffer, startTimeRef, calls, live, frames, now, env,
                       overlap, stopped>>

(* lines 199-201 *)
FinalValue(values, ts) ==
    IF Len(values) >= MIN_SAMPLES THEN calculateBPM(values, ts) ELSE Unknown

(* A faulty publication that skips the plausibility test *)
PublishAlways(finalValue) ==
    finalBPM' = <<Round(finalValue)>> /\ UNCHANGED error

(* lines 203-207: the result or the error is published *)
PublishFinal(finalValue) ==
    IF Plausible(finalValue)
    THEN finalBPM' = <<Round(finalValue)>> /\ UNCHANGED error
    ELSE error' = FinalError /\ UNCHANGED finalBPM

(* lines 198-208: the session timeout *)
TimeoutFired(k) ==
    \E t \in DueTimers("timeout") :
        /\ t.id = k
        /\ SetResources(Teardown([Resources EXCEPT !.timers = timers \ {t}]))
        /\ PublishFinal(FinalValue(redValues, timestamps))
        /\ UNCHANGED <<currentBPM, progress, buffer, startTimeRef, calls, now,
                       env, overlap, stopped>>

(* lines 210-212: the settle timer requests the first frame callback *)
SettleFired(k) ==
    \E t \in DueTimers("settle") :
        /\ t.id = k
        /\ timers' = timers \ {t}
        /\ animationFrameRef' = k
        /\ frames' = frames \cup {FrameCallback(k, NextFrameTime(env.fps, now))}
        /\ UNCHANGED <<reactState, streamRef, intervalRef, timeoutRef, srcObject,
                       buffer, startTimeRef, calls, live, now, env, overlap,
                       stopped>>

----------------------------------------------------------------------------
(* analyzeFrame, lines 70-151 *)

(* What the video element shows: nothing without a source (readyState is   *)
(* HAVE_NOTHING), else the environment's frame                             *)
CurrentFrame == IF srcObject = NoHandle THEN NotReady ELSE Frame(env.signal, now)

(* A faulty gate with inclusive bounds *)
AcceptedInclusive(frame) ==
    /\ frame.ready
    /\ frame.r + frame.g + frame.b >= 3 * MIN_BRIGHTNESS
    /\ frame.r + frame.g + frame.b <= 3 * MAX_BRIGHTNESS

(* lines 127-129: brightness = (avgRed + avgGreen + avgBlue) / 3 within    *)
(* the exclusive bounds, compared without the division                     *)
Accepted(frame) ==
    /\ frame.ready
    /\ frame.r + frame.g + frame.b > 3 * MIN_BRIGHTNESS
    /\ frame.r + frame.g + frame.b < 3 * MAX_BRIGHTNESS

(* A faulty push at the front (unshift), evicting at the end *)
PushFront(s, x) ==
    IF Len(s) + 1 > MAX_SAMPLES THEN <<x>> \o SubSeq(s, 1, Len(s) - 1)
                                ELSE <<x>> \o s

(* A faulty push that never evicts *)
PushNoEvict(s, x) == Append(s, x)

(* lines 131-137: push, then evict the oldest beyond 450 *)
Push(s, x) == IF Len(s) + 1 > MAX_SAMPLES THEN Tail(Append(s, x)) ELSE Append(s, x)

(* A faulty display that shows every estimate *)
NextCurrentBPMUnchecked(values, ts, timestamp) ==
    IF Len(values) >= MIN_SAMPLES /\ timestamp - startTimeRef > WARMUP_MS
    THEN Round(calculateBPM(values, ts))
    ELSE currentBPM

(* lines 139-144: the displayed BPM *)
NextCurrentBPM(values, ts, timestamp) ==
    IF Len(values) >= MIN_SAMPLES /\ timestamp - startTimeRef > WARMUP_MS
    THEN LET bpm == calculateBPM(values, ts)
         IN  IF Plausible(bpm) THEN Round(bpm) ELSE currentBPM
    ELSE currentBPM

(* lines 77-82, 87-92, 148-150: the callback requests itself again when    *)
(* the isDetecting of its closure is true                                  *)
Reschedule(k, f) ==
    IF calls[k].cap
    THEN /\ animationFrameRef' = k
         /\ frames' = (frames \ {f}) \cup
                          {FrameCallback(k, NextFrameTime(env.fps, now))}
    ELSE /\ frames' = frames \ {f}
         /\ UNCHANGED animationFrameRef

(* A faulty callback that samples every ready frame, whatever its          *)
(* brightness                                                              *)
analyzeFrameAnyBrightness(k) ==
    \E f \in DueFrames :
        /\ f.id = k
        /\ IF CurrentFrame.ready
           THEN /\ redValues' = Push(redValues, CurrentFrame.r)
                /\ timestamps' = Push(timestamps, now)
                /\ currentBPM' = NextCurrentBPM(redValues', timestamps', now)
           ELSE UNCHANGED <<buffer, currentBPM>>
        /\ Reschedule(k, f)
        /\ UNCHANGED <<finalBPM, isDetecting, progress, error, streamRef,
                       intervalRef, timeoutRef, srcObject, startTimeRef, calls,
                       live, timers, now, env, overlap, stopped>>

analyzeFrame(k) ==
    \E f \in DueFrames :
        /\ f.id = k
        /\ IF Accepted(CurrentFrame)
           THEN /\ redValues' = Push(redValues, CurrentFrame.r)
                /\ timestamps' = Push(timestamps, now)
                /\ currentBPM' = NextCurrentBPM(redValues', timestamps', now)
           ELSE UNCHANGED <<buffer, currentBPM>>
        /\ Reschedule(k, f)
        /\ UNCHANGED <<finalBPM, isDetecting, progress, error, streamRef,
                       intervalRef, timeoutRef, srcObject, startTimeRef, calls,
                       live, timers, now, env, overlap, stopped>>

----------------------------------------------------------------------------
(* The clock: it moves to the deadline of the next pending callback, once  *)
(* every callback due now has run.  With nothing pending no callback reads *)
(* the clock, so it stands.  The promises startDetection awaits settle     *)
(* before the next deadline: callbacks due at the instant still run        *)
(* between a call and its resumption, in any order.                        *)

NextInstant ==
    MinOf({t.at : t \in timers} \cup {f.at : f \in frames} )

Advance ==
    /\ \A t \in timers : t.at > now
    /\ DueFrames = {}
    /\ timers # {} \/ frames # {}
    /\ \A j \in Calls : calls[j].pc \notin Awaiting
    /\ NextInstant <= env.horizon
    /\ now' = NextInstant
    /\ UNCHANGED <<reactState, handleRefs, buffer, startTimeRef, calls, live,
                   timers, frames, env, overlap, stopped>>

----------------------------------------------------------------------------
(* The hook after its first render, lines 16-32 *)

InitHook ==
    /\ currentBPM = 0
    /\ finalBPM = <<>>
    /\ isDetecting = FALSE
    /\ progress = 0
    /\ error = NoError
    /\ streamRef = NoHandle
    /\ animationFrameRef = NoHandle
    /\ intervalRef = NoHandle
    /\ timeoutRef = NoHandle
    /\ redValues = <<>>
    /\ timestamps = <<>>
    /\ startTimeRef = 0
    /\ srcObject = NoHandle
    /\ calls = [k \in Calls |-> Idle]
    /\ live = {}
    /\ timers = {}
    /\ frames = {}
    /\ now = 0
    /\ overlap = FALSE
    /\ stopped = "no"

(* The environments.  Short sessions on a slow display, the user and the   *)
(* promises acting at any time; and sessions long enough to fill the       *)
(* buffer, at 30 frames per second, in a patient environment; a fast       *)
(* display that overfills the buffer; and a second of frames at the edges  *)
(* of the brightness gate.                                                 *)
Env(durationMs, fps, signals, horizon, patient) ==
    [durationMs : {durationMs}, fps : {fps}, signal : signals,
     horizon : {horizon}, patient : {patient}]

ShortRuns == Env(600, 10, {"mixed"}, MaxTicks * PROGRESS_MS, FALSE)
LongRuns  == Env(DEFAULT_DURATION * MS_PER_SECOND, 30, {"pulse", "flat"},
                 DEFAULT_DURATION * MS_PER_SECOND, TRUE)

FastRuns  == Env(9 * MS_PER_SECOND, 60, {"slowing"}, 9 * MS_PER_SECOND, TRUE)
EdgeRuns  == Env(MS_PER_SECOND, 30, {"edges"}, MS_PER_SECOND, TRUE)

Init == InitHook /\ env \in ShortRuns \cup LongRuns \cup FastRuns \cup EdgeRuns

Next ==
    \/ \E k \in Calls : startDetection(k)
    \/ \E k \in Calls, torch \in BOOLEAN : CameraResolved(k, torch)
    \/ \E k \in Calls : CameraRejected(k)
    \/ \E k \in Calls : TorchResolved(k)
    \/ \E k \in Calls : TorchRejected(k)
    \/ \E k \in Calls : PlayResolved(k)
    \/ \E k \in Calls : PlayRejected(k)
    \/ \E k \in Calls : ProgressTick(k)
    \/ \E k \in Calls : TimeoutFired(k)
    \/ \E k \in Calls : SettleFired(k)
    \/ \E k \in Calls : analyzeFrame(k)
    \/ stopDetection
    \/ Advance

Spec == Init /\ [][Next]_vars

----------------------------------------------------------------------------
(* Termination.  The clock of Spec stops at the horizon; a session started *)
(* late has its timeout after it.  Here the clock also moves on while a    *)
(* single-shot timeout is pending, so every timeout created comes due.     *)
(* The runtime runs a due timer or frame callback, settles a promise and   *)
(* lets time pass: weak fairness of these steps.  The user owes nothing.   *)

AdvancePastHorizon ==
    /\ \A t \in timers : t.at > now
    /\ DueFrames = {}
    /\ \E t \in timers : t.kind = "timeout"
    /\ \A j \in Calls : calls[j].pc \notin Awaiting
    /\ NextInstant > env.horizon
    /\ now' = NextInstant
    /\ UNCHANGED <<reactState, handleRefs, buffer, startTimeRef, calls, live,
                   timers, frames, env, overlap, stopped>>

RuntimeStep ==
    \/ \E k \in Calls, torch \in BOOLEAN : CameraResolved(k, torch)
    \/ \E k \in Calls : CameraRejected(k)
    \/ \E k \in Calls : TorchResolved(k)
    \/ \E k \in Calls : TorchRejected(k)
    \/ \E k \in Calls : PlayResolved(k)
    \/ \E k \in Calls : PlayRejected(k)
    \/ \E k \in Calls : ProgressTick(k)
    \/ \E k \in Calls : TimeoutFired(k)
    \/ \E k \in Calls : SettleFired(k)
    \/ \E k \in Calls : analyzeFrame(k)
    \/ Advance
    \/ AdvancePastHorizon

InitFair == InitHook /\ env \in ShortRuns

NextFair ==
    \/ \E k \in Calls : startDetection(k)
    \/ stopDetection
    \/ RuntimeStep

SpecFair == InitFair /\ [][NextFair]_vars /\ WF_vars(RuntimeStep)

----------------------------------------------------------------------------
(* The estimator on its own: the timeout callback's estimate (lines        *)
(* 199-207) of buffers drawn from a family.  A buffer of n samples, 10 ms  *)
(* apart, is level but for raised samples at some of the positions Spots;  *)
(* the samples at positions 10 and 13 are `gap` ms apart.                  *)

Lengths == (MIN_SAMPLES - 1)..(MIN_SAMPLES + MaxExtra)
Gaps    == {250, minPeakDistance, minPeakDistance + 1}
Spots(n) == {1, 2, 3, 10, 13, n - 2, n - 1, n}

RaisedValues(n, raised) == [i \in 1..n |-> IF i \in raised THEN 150 ELSE 100]
SpacedStamps(n, gap)    == [i \in 1..n |-> IF i <= 10 THEN 10 * i
                                                     ELSE 10 * i + gap - 30]

InitEstimate ==
    /\ currentBPM = 0
    /\ finalBPM = <<>>
    /\ isDetecting = FALSE
    /\ progress = 0
    /\ error = NoError
    /\ streamRef = NoHandle
    /\ animationFrameRef = NoHandle
    /\ intervalRef = NoHandle
    /\ timeoutRef = NoHandle
    /\ \E n \in Lengths, gap \in Gaps :
           /\ timestamps = SpacedStamps(n, gap)
           /\ \E raised \in SUBSET Spots(n) : redValues = RaisedValues(n, raised)
    /\ startTimeRef = 0
    /\ srcObject = NoHandle
    /\ calls = [k \in Calls |-> Idle]
    /\ live = {}
    /\ timers = {}
    /\ frames = {}
    /\ now = 0
    /\ env \in LongRuns
    /\ env.signal = "pulse"
    /\ overlap = FALSE
    /\ stopped = "no"

(* lines 199-207 without the teardown: the estimate and its publication *)
EstimateFinal ==
    /\ finalBPM = <<>>
    /\ error = NoError
    /\ PublishFinal(FinalValue(redValues, timestamps))
    /\ UNCHANGED <<currentBPM, isDetecting, progress, handleRefs, buffer,
                   startTimeRef, calls, live, timers, frames, now, env,
                   overlap, stopped>>

NextEstimate == EstimateFinal

SpecEstimate == InitEstimate /\ [][NextEstimate]_vars

----------------------------------------------------------------------------
(* Vocabulary of the properties *)

(* The timers and frame callbacks invocation k created and not yet run *)
PendingOf(k) == {t \in timers : t.id = k} \cup {f \in frames : f.id = k}

AllHandlesNull ==
    /\ streamRef = NoHandle
    /\ animationFrameRef = NoHandle
    /\ intervalRef = NoHandle
    /\ timeoutRef = NoHandle

(* Invocation k is the last call of startDetection so far *)
Latest(k) == \A j \in Calls : j > k => calls[j].pc = "idle"

(* The handles a teardown cancelled are no longer pending, the stream it   *)
(* released is no longer open                                              *)
Released ==
    /\ AllHandlesNull'
    /\ ~isDetecting'
    /\ streamRef \notin live'
    /\ \A f \in frames' : f.id # animationFrameRef
    /\ \A t \in timers' : /\ ~(t.kind = "interval" /\ t.id = intervalRef)
                          /\ ~(t.kind = "timeout" /\ t.id = timeoutRef)

----------------------------------------------------------------------------
(* C1: stopDetection called in a Detecting session with stream, both       *)
(* timers and the frame loop in place leaves the three handles cancelled   *)
(* and null, the stream stopped and its handle null, isDetecting false.    *)
C1_StopReleasesSession ==
    [][(FullyStarted /\ stopDetection) => Released]_vars

C1_Witness ==
    stopped = "sampling" /\ ~overlap /\ AllHandlesNull /\ ~isDetecting

(* C2: after a manual stop at any point of a session, the camera await     *)
(* included, no final result is published for that session: finalBPM stays *)
(* empty and the final-result error stays unset until the next start.      *)
C2_NoResultAfterStop ==
    (stopped \in {"acquiring", "settling", "sampling"} /\ ~overlap)
        => finalBPM = <<>> /\ error # FinalError

(* C3: after a stop that directly follows a completed start, before the    *)
(* settle delay has elapsed, finalBPM stays empty, no error is raised, no  *)
(* frame callback of the session runs and no sample is appended.           *)
C3_EarlyStopReleasesCallbacks ==
    [][(stopped = "settling" /\ ~overlap) =>
          /\ finalBPM' = <<>>
          /\ error' = NoError
          /\ redValues' = redValues
          /\ ~\E k \in Calls : analyzeFrame(k)]_vars

(* C4: stopDetection tolerates every combination of handles and is         *)
(* idempotent: its teardown applied twice gives what it gives applied      *)
(* once, and no handle survives it; the fields it does not own are left    *)
(* alone by the action.                                                    *)
C4_StopIdempotent ==
    LET once == Teardown(Resources)
    IN  /\ Teardown(once) = once
        /\ ~once.isDetecting
        /\ once.animationFrameRef = NoHandle
        /\ once.intervalRef = NoHandle
        /\ once.timeoutRef = NoHandle
        /\ once.streamRef = NoHandle
        /\ once.srcObject = NoHandle

C4_Witness ==
    /\ stopped \in {"acquiring", "settling", "sampling", "other"}
    /\ ~overlap
    /\ \E k \in Calls : calls[k].pc \in Rejections \cup {"started"}
    /\ Teardown(Resources) = Resources

(* C5: a rejected camera request never reaches Detecting: nothing of the   *)
(* invocation is pending or open, and, until the next call, error is set,  *)
(* isDetecting is false, finalBPM is empty and no timer or frame callback  *)
(* was started.                                                            *)
C5_CameraRejected ==
    \A k \in Calls :
        calls[k].pc = "cameraRejected" =>
            /\ PendingOf(k) = {}
            /\ k \notin live \cup {streamRef, animationFrameRef, intervalRef,
                                   timeoutRef, srcObject}
            /\ (~overlap /\ Latest(k)) =>
                   /\ error = CameraError
                   /\ ~isDetecting
                   /\ finalBPM = <<>>
                   /\ intervalRef = NoHandle
                   /\ timeoutRef = NoHandle
                   /\ \A t \in timers : t.kind = "settle"

C5_Witness ==
    \E k \in Calls :
        /\ calls[k].pc = "cameraRejected"
        /\ ~overlap /\ Latest(k)
        /\ error = CameraError

(* C6: the session timeout firing in a Detecting session computes the     *)
(* estimate from the buffer of that moment (unknown below 60 samples),     *)
(* tears the session down, and publishes exactly one outcome: the rounded  *)
(* estimate in finalBPM when it is plausible, else the error with finalBPM *)
(* left as it was.                                                         *)
C6_TimeoutOutcome ==
    [][\A k \in Calls :
          (isDetecting /\ TimeoutFired(k)) =>
              LET estimate == IF Len(redValues) >= MIN_SAMPLES
                              THEN calculateBPM(redValues, timestamps)
                              ELSE Unknown
                  known == estimate[1] > MIN_BPM * estimate[2]
                               /\ estimate[1] < MAX_BPM * estimate[2]
              IN  /\ Released
                  /\ redValues' = redValues /\ timestamps' = timestamps
                  /\ known => /\ finalBPM' = <<Round(estimate)>>
                              /\ error' = error
                  /\ ~known => /\ error' = FinalError
                               /\ finalBPM' = finalBPM
                  /\ (finalBPM = <<>> /\ error = NoError)
                         => ((finalBPM' = <<>>) # (error' = NoError))]_vars

(* Both outcomes of the timeout have been published *)
C6_Witness ==
    /\ finalBPM # <<>>
    /\ error = NoError
    /\ ~isDetecting
    /\ AllHandlesNull
    /\ Len(redValues) >= MIN_SAMPLES

(* C7: a torch that cannot be switched on is ignored: no error is          *)
(* surfaced and the invocation goes on to play the video.                  *)
C7_TorchFailureIgnored ==
    [][\A k \in Calls :
          TorchRejected(k) => error' = error /\ calls'[k].pc = "play"]_vars

(* C8: every failure path tears down: an invocation that ended in the      *)
(* error branch leaves its stream closed, the stream handle null and       *)
(* nothing of it pending; a session that ended with the final-result       *)
(* error leaves no stream open and nothing pending.                        *)
C8_FailureTearsDown ==
    /\ \A k \in Calls :
           calls[k].pc \in Rejections =>
               k \notin live /\ streamRef # k /\ PendingOf(k) = {}
    /\ (error = FinalError /\ ~overlap) =>
           live = {} /\ streamRef = NoHandle /\ timers = {} /\ frames = {}

(* C9: once the settle timer of the Detecting session has requested the    *)
(* first frame callback, a frame callback of the session is pending for    *)
(* as long as the session is Detecting.                                    *)
C9_FrameLoopKeepsRunning ==
    \A k \in Calls :
        ( /\ isDetecting
          /\ ~overlap
          /\ stopped = "no"
          /\ calls[k].pc = "started"
          /\ intervalRef = k
          /\ \A t \in timers : ~(t.kind = "settle" /\ t.id = k) )
            => \E f \in frames : f.id = k

(* C10: a 15 s session at 30 frames per second, every frame accepted and   *)
(* carrying a peak every 800 ms, has ended once the duration has elapsed,  *)
(* with isDetecting false, finalBPM within 73..77 and no error.            *)
C10_EndToEnd ==
    ( /\ env.durationMs = DEFAULT_DURATION * MS_PER_SECOND
      /\ env.fps = 30
      /\ env.signal = "pulse"
      /\ ~overlap
      /\ calls[1].pc = "started"
      /\ now >= env.durationMs
      /\ \A t \in timers : t.kind # "timeout" )
        => /\ ~isDetecting
           /\ finalBPM \in {<<n>> : n \in 73..77}
           /\ error = NoError

(* C11: the buffer never holds more than 450 samples, its two lists have   *)
(* the same length, the i-th value is the one sampled at the i-th          *)
(* timestamp, and a push on a full buffer drops exactly the oldest pair.   *)
(* The buffer is empty at first, so what every step establishes holds in   *)
(* every reachable state.                                                  *)
C11_BufferBounded ==
    [][buffer' # buffer =>
          /\ Len(redValues') <= MAX_SAMPLES
          /\ Len(timestamps') = Len(redValues')
          /\ \A i \in 1..Len(redValues') :
                 redValues'[i] = Frame(env.signal, timestamps'[i]).r
          /\ (Len(timestamps) = MAX_SAMPLES /\ timestamps' # <<>>) =>
                 /\ Len(timestamps') = MAX_SAMPLES
                 /\ \A i \in 1..(MAX_SAMPLES - 1) :
                        /\ redValues'[i] = redValues[i + 1]
                        /\ timestamps'[i] = timestamps[i + 1]
                 /\ timestamps'[MAX_SAMPLES] = now]_vars

(* The buffer is full and its first samples have been evicted *)
C11_Witness ==
    /\ Len(timestamps) = MAX_SAMPLES
    /\ Len(redValues) = MAX_SAMPLES
    /\ timestamps[1] > 2 * SETTLE_MS
    /\ timestamps[MAX_SAMPLES] = now

(* C12: the estimate of fewer than 60 samples is 0 whatever they are, and  *)
(* so is the estimate of any buffer with fewer than 2 accepted peaks; a    *)
(* result is published only from 60 samples and 2 peaks on.                *)
C12_UnknownEstimate ==
    LET estimate == calculateBPM(redValues, timestamps)
        peaks == FindPeaks(redValues, timestamps)
    IN  /\ Len(redValues) < 60 => estimate = <<0, 1>>
        /\ Len(peaks) < 2 => estimate = <<0, 1>>
        /\ (Len(redValues) >= 60 /\ Len(peaks) >= 2) => estimate[1] > 0
        /\ finalBPM # <<>> => (Len(redValues) >= 60 /\ Len(peaks) >= 2)

(* 59 samples with two accepted peaks gave no result *)
C12_Witness ==
    /\ Len(redValues) = MIN_SAMPLES - 1
    /\ Len(FindPeaks(redValues, timestamps)) >= 2
    /\ error = FinalError
    /\ finalBPM = <<>>

(* C14: a position is a peak candidate only if it is not among the first   *)
(* two or last two, its value is strictly above its four neighbours and    *)
(* above the mean; the accepted peaks are the first candidate and every    *)
(* candidate more than 300 ms after the peak accepted before it.  Two      *)
(* candidates 250 ms (or 300 ms) apart give one peak, 301 ms apart two.    *)
C14_PeakAcceptance ==
    LET v == redValues
        ts == timestamps
        n == Len(v)
        peaks == FindPeaks(v, ts)
        candidates ==
            {i \in 3..(n - 2) :
                /\ v[i] > v[i - 1] /\ v[i] > v[i - 2]
                /\ v[i] > v[i + 1] /\ v[i] > v[i + 2]
                /\ v[i] * n > Sum(v)}
        first == CHOOSE i \in candidates : \A j \in candidates : i <= j
    IN  /\ \A j \in 1..Len(peaks) : \E i \in candidates : ts[i] = peaks[j]
        /\ \A j \in 1..Len(peaks) :
               peaks[j] \notin {ts[1], ts[2], ts[n - 1], ts[n]}
        /\ \A j \in 1..(Len(peaks) - 1) : peaks[j + 1] - peaks[j] > 300
        /\ candidates # {} => (Len(peaks) >= 1 /\ peaks[1] = ts[first])
        /\ \A i \in candidates :
               \/ \E j \in 1..Len(peaks) : peaks[j] = ts[i]
               \/ \E j \in 1..Len(peaks) :
                      /\ peaks[j] < ts[i]
                      /\ ts[i] - peaks[j] <= 300
                      /\ (j = Len(peaks) \/ peaks[j + 1] > ts[i])
        /\ candidates = {10, 13} =>
               Len(peaks) = IF ts[13] - ts[10] >= 301 THEN 2 ELSE 1

(* Two candidates 250 ms apart were estimated and gave one accepted peak,  *)
(* although samples were raised at the first and the last positions too    *)
C14_Witness ==
    /\ timestamps[13] - timestamps[10] = 250
    /\ {i \in 1..Len(redValues) : redValues[i] > 100}
           = {1, 10, 13, Len(redValues)}
    /\ FindPeaks(redValues, timestamps) = <<timestamps[10]>>
    /\ error = FinalError

(* C13: a frame callback appends one sample if and only if the frame is    *)
(* ready and its brightness (r + g + b) / 3 is strictly between 80 and     *)
(* 240; at exactly 80 or 240 nothing is appended, at 81 and 239 the red    *)
(* mean is appended with the time of the frame.                            *)
C13_BrightnessGate ==
    [][\A k \in Calls :
          (DueFrames # {} /\ analyzeFrame(k)) =>
              LET frame == CurrentFrame
                  sum == frame.r + frame.g + frame.b
              IN  IF frame.ready /\ sum > 3 * 80 /\ sum < 3 * 240
                  THEN /\ Len(timestamps') = Min(Len(timestamps) + 1, MAX_SAMPLES)
                       /\ Len(redValues') = Len(timestamps')
                       /\ timestamps'[Len(timestamps')] = now
                       /\ redValues'[Len(redValues')] = frame.r
                  ELSE /\ redValues' = redValues
                       /\ timestamps' = timestamps]_vars

(* Frames of brightness 80, 81, 239 and 240 have been shown; those of 81   *)
(* and 239 are in the buffer and no other                                  *)
C13_Witness ==
    /\ env.signal = "edges"
    /\ now >= 700
    /\ {redValues[i] : i \in 1..Len(redValues)} = {81, 239}
    /\ \E t \in SETTLE_MS..now : EdgeGrey(t) = 80 /\ FrameAt(env.fps, (t * env.fps) \div MS_PER_SECOND + 1) = t
    /\ Len(redValues) < ((now - SETTLE_MS) * env.fps) \div MS_PER_SECOND

(* C15: a frame callback changes currentBPM only to the rounded estimate   *)
(* of the buffer it has just extended, and only when that estimate is      *)
(* strictly between 40 and 200; so with an estimate of 0 or outside the    *)
(* range currentBPM keeps its value.                                       *)
C15_OnlyPlausibleShown ==
    [][\A k \in Calls :
          (DueFrames # {} /\ analyzeFrame(k) /\ currentBPM' # currentBPM) =>
              LET estimate == calculateBPM(redValues', timestamps')
              IN  /\ timestamps' # timestamps
                  /\ estimate[1] > 40 * estimate[2]
                  /\ estimate[1] < 200 * estimate[2]
                  /\ currentBPM' = Round(estimate)]_vars

(* The estimate has fallen below 40 and the value shown before is kept *)
C15_Witness ==
    /\ env.signal = "slowing"
    /\ isDetecting
    /\ currentBPM > 40
    /\ now > 8000
    /\ Len(redValues) >= MIN_SAMPLES
    /\ LET estimate == calculateBPM(redValues, timestamps)
       IN  estimate[1] > 0 /\ estimate[1] <= 40 * estimate[2]

(* C16: every call of startDetection empties the buffer and resets error,  *)
(* finalBPM, currentBPM and progress before the camera is requested, and   *)
(* touches nothing else of the hook.                                       *)
C16_StartResets ==
    [][\A k \in Calls :
          (calls[k].pc = "idle" /\ startDetection(k)) =>
              /\ redValues' = <<>>
              /\ timestamps' = <<>>
              /\ error' = NoError
              /\ finalBPM' = <<>>
              /\ currentBPM' = 0
              /\ progress' = 0
              /\ calls'[k].pc = "camera"
              /\ live' = live
              /\ isDetecting' = isDetecting]_vars

(* A second session has been started after the first one ran for its      *)
(* duration: nothing of it is left                                         *)
C16_Witness ==
    /\ calls[1].pc = "started"
    /\ calls[2].pc = "camera"
    /\ ~overlap
    /\ ~isDetecting
    /\ now >= env.durationMs
    /\ timers = {}
    /\ error = NoError /\ finalBPM = <<>> /\ currentBPM = 0 /\ progress = 0
    /\ redValues = <<>> /\ timestamps = <<>>

(* C17: progress stays within 0..100 percent; within a session that no     *)
(* other session overlaps it never decreases; and once the session has     *)
(* been stopped no progress tick runs any more.                            *)
C17_ProgressMonotone ==
    [][/\ progress' >= 0
       /\ progress' <= env.durationMs
       /\ (~overlap /\ ~\E k \in Calls : calls[k].pc = "idle" /\ startDetection(k))
              => progress' >= progress
       /\ (~overlap /\ stopped # "no")
              => ~\E k \in Calls : ProgressTick(k)]_vars

(* C18: startDetection is not guarded against re-entry.  An acquisition    *)
(* that resumes while the refs hold the stream and the timers of a running *)
(* session overwrites them without releasing anything, and stopDetection   *)
(* releases only what the refs hold: the stream, the progress interval and *)
(* the timeout that were overwritten stay open and pending after it.       *)
C18_ReentryLeaks ==
    [][/\ \A k \in Calls :
             (calls[k].pc = "camera"
                /\ \E torch \in BOOLEAN : CameraResolved(k, torch)) =>
                 /\ streamRef' = k
                 /\ live' = live \cup {k}
       /\ \A k \in Calls :
             (calls[k].pc = "play" /\ PlayResolved(k)) =>
                 /\ intervalRef' = k /\ timeoutRef' = k
                 /\ timers \subseteq timers'
                 /\ live' = live
       /\ stopDetection =>
             /\ live' = live \ {streamRef}
             /\ {t \in timers : t.id \notin {intervalRef, timeoutRef}}
                    \subseteq timers']_vars

(* After a stop that followed a re-entrant start: every ref is null, yet   *)
(* the first stream is open and the first session's interval and timeout   *)
(* are pending                                                             *)
C18_Witness ==
    /\ Free
    /\ overlap
    /\ AllHandlesNull
    /\ ~isDetecting
    /\ calls[1].pc = "started" /\ calls[2].pc = "started"
    /\ 1 \in live
    /\ \E t \in timers : t.kind = "interval" /\ t.id = 1
    /\ \E t \in timers : t.kind = "timeout" /\ t.id = 1
    /\ now < env.durationMs

(* C19: on an accepted frame currentBPM is recomputed (set to the rounded  *)
(* estimate when that is plausible) exactly when the buffer holds at least *)
(* 60 samples and at least 3000 ms have passed since detection start;      *)
(* before that it stays at its reset value 0.                              *)
C19_RecomputeFromWarmup ==
    [][\A k \in Calls :
          (DueFrames # {} /\ analyzeFrame(k) /\ timestamps' # timestamps) =>
              LET warm == /\ Len(redValues') >= 60
                          /\ now - startTimeRef >= 3000
                  estimate == calculateBPM(redValues', timestamps')
                  inRange == /\ estimate[1] > 40 * estimate[2]
                             /\ estimate[1] < 200 * estimate[2]
              IN  /\ (warm /\ inRange) => currentBPM' = Round(estimate)
                  /\ ~warm => currentBPM' = currentBPM
                  /\ (~warm /\ ~overlap) => currentBPM' = 0]_vars

(* C20: in a session no other session overlaps, a sample is appended only  *)
(* while the session is Detecting with the stream attached and playback    *)
(* confirmed, and not before 500 ms after detection start; the progress    *)
(* interval and the timeout exist only for invocations whose playback was  *)
(* confirmed.                                                              *)
C20_SamplingAfterSettle ==
    [][/\ (~overlap /\ timestamps' # timestamps /\ timestamps' # <<>>) =>
              /\ isDetecting
              /\ srcObject # NoHandle
              /\ \E k \in Calls : Latest(k) /\ calls[k].pc = "started"
              /\ now - startTimeRef >= 500
       /\ \A t \in timers' :
              t.kind \in {"interval", "timeout"} => calls'[t.id].pc = "started"]_vars

(* C21: a frame callback that finds the frame not ready, or its brightness *)
(* not strictly between 80 and 240, skips the frame: the buffer,           *)
(* currentBPM, finalBPM, error, progress and isDetecting are unchanged, so *)
(* no error is raised.                                                     *)
C21_SkippedFrameNoEffect ==
    [][\A k \in Calls :
          LET frame == CurrentFrame
              sum == frame.r + frame.g + frame.b
              skipped == \/ ~frame.ready
                         \/ sum <= 3 * 80
                         \/ sum >= 3 * 240
          IN  (DueFrames # {} /\ skipped /\ analyzeFrame(k)) =>
                  /\ redValues' = redValues
                  /\ timestamps' = timestamps
                  /\ currentBPM' = currentBPM
                  /\ finalBPM' = finalBPM
                  /\ error' = error
                  /\ progress' = progress
                  /\ isDetecting' = isDetecting]_vars

(* The frame callback due now has run on a ready frame of brightness 80,   *)
(* after samples had been taken, and has requested the next frame: the     *)
(* last sample is older than the frame it skipped                          *)
C21_Witness ==
    /\ env.signal = "edges"
    /\ isDetecting
    /\ error = NoError
    /\ now > SETTLE_MS
    /\ \E j \in 1..env.fps : FrameAt(env.fps, j) = now
    /\ CurrentFrame.ready
    /\ CurrentFrame.r = 80
    /\ DueFrames = {}
    /\ \E f \in frames : f.at = NextFrameTime(env.fps, now)
    /\ timestamps # <<>>
    /\ timestamps[Len(timestamps)] < now

(* C22: with the runtime's steps fair, every state with isDetecting true   *)
(* is followed by a state with isDetecting false, every handle null and no *)
(* camera stream open.                                                     *)
C22_DetectingEnds ==
    isDetecting ~> (~isDetecting /\ AllHandlesNull /\ live = {})

(* C23: in every reachable state the timestamps of the buffer are          *)
(* non-decreasing, also after restarts and with the frame callbacks of     *)
(* several sessions interleaving.                                          *)
C23_TimestampsOrdered ==
    \A i \in 1..(Len(timestamps) - 1) : timestamps[i] <= timestamps[i + 1]

(* Two sessions overlap and their frame callbacks have sampled the same    *)
(* instant twice, then later instants                                      *)
C23_Witness ==
    /\ overlap
    /\ Len(timestamps) >= 4
    /\ timestamps[1] = timestamps[2]
    /\ timestamps[3] > timestamps[2]
    /\ Len(timestamps) = Len(redValues)

(* C24: for every buffer the estimate is 0 or a value strictly between 0   *)
(* and 200: consecutive accepted peaks are more than 300 ms apart, so the  *)
(* sum of the intervals the estimate divides by is positive and the        *)
(* quotient stays below 200.                                               *)
C24_EstimateBelow200 ==
    LET estimate == calculateBPM(redValues, timestamps)
        peaks == FindPeaks(redValues, timestamps)
    IN  /\ \A i \in 1..(Len(peaks) - 1) : peaks[i + 1] - peaks[i] > 300
        /\ estimate[2] > 0
        /\ \/ estimate[1] = 0
           \/ estimate[1] > 0 /\ estimate[1] < 200 * estimate[2]

(* Two peaks 301 ms apart: the estimate 60000 / 301 was computed and       *)
(* published as 199                                                        *)
C24_Witness ==
    /\ finalBPM = <<199>>
    /\ LET estimate == calculateBPM(redValues, timestamps)
       IN  estimate[1] * 301 = 60000 * estimate[2]

(* C25: in every reachable state isDetecting true implies that finalBPM is *)
(* empty and error is empty.                                               *)
C25_NoOutcomeWhileDetecting ==
    isDetecting => (finalBPM = <<>> /\ error = NoError)

(* C26: a stop wins over a pending start.  After stopDetection has been    *)
(* called in a session no other session overlaps, the stop made during an  *)
(* await of startDetection included, and until startDetection is called    *)
(* again, isDetecting does not become true, no stream is taken or opened   *)
(* and no timer is created.                                                *)
C26_StopWins ==
    [][(~overlap /\ stopped # "no") =>
          /\ ~isDetecting'
          /\ streamRef' = NoHandle
          /\ live' \subseteq live
          /\ timers' \subseteq timers]_vars

====
